---- MODULE Spec2Model ----
(***************************************************************************)
(* A model of pipeline_migration.actions.migrate: the range resolver, the  *)
(* two migration resolvers, the upgrades manager and the migration applier *)
(* of konflux-ci/pipeline-migration-tool.                                  *)
(***************************************************************************)
EXTENDS Integers, Sequences, FiniteSets, TLC

(* ------------------------------------------------------------------ *)
(* Bounds of the model                                                *)
(* ------------------------------------------------------------------ *)
MaxMajor == 1      \* versions are <major>.<minor>, major in 0..MaxMajor
MaxMinor == 3      \* minor in 0..MaxMinor
MaxTags == 4       \* tags in a repository of the range family
MaxRange == 3      \* length of the upgrade range in the resolver family
MaxRecords == 2    \* input upgrade records in the manager family
MaxVisits == 5     \* bundles one worker visits before the model stops following it
MaxTies == 3       \* tags in a repository of the family with equal start_ts
MaxCalls == 3      \* calls the client of the facade makes

(* ------------------------------------------------------------------ *)
(* Values                                                             *)
(* ------------------------------------------------------------------ *)
None == <<>>                      \* Python None, as an empty option
Some(x) == <<x>>

Min(a, b) == IF a < b THEN a ELSE b
Max(a, b) == IF a > b THEN a ELSE b

RECURSIVE Reverse(_)
Reverse(s) == IF s = <<>> THEN <<>> ELSE Append(Reverse(Tail(s)), Head(s))

\* s[a:b] of Python for a list s; a and b are 0-based and may be negative.
PyNorm(i, n) == IF i < 0 THEN Max(i + n, 0) ELSE Min(i, n)
PySlice(s, a, b) == SubSeq(s, PyNorm(a, Len(s)) + 1, PyNorm(b, Len(s)))
PySliceFrom(s, a) == SubSeq(s, PyNorm(a, Len(s)) + 1, Len(s))

\* list.index(x): the 0-based index of the first occurrence, -1 for ValueError.
PyIndex(s, x) ==
    IF \E k \in 1..Len(s) : s[k] = x
    THEN (CHOOSE k \in 1..Len(s) : s[k] = x /\ \A j \in 1..(k - 1) : s[j] # x) - 1
    ELSE -1

(* ------------------------------------------------------------------ *)
(* Versions (packaging.version.Version of a dotted "<major>.<minor>") *)
(* ------------------------------------------------------------------ *)
Versions == (0..MaxMajor) \X (0..MaxMinor)
VerStr(v) == ToString(v[1]) \o "." \o ToString(v[2])
VersionStrings == {VerStr(v) : v \in Versions}
parse_version(s) == CHOOSE v \in Versions : VerStr(v) = s
VersionLess(a, b) == a[1] < b[1] \/ (a[1] = b[1] /\ a[2] < b[2])
VersionGeq(a, b) == ~VersionLess(a, b)

\* range(a, b): the upper bound left out
MinorRangeExclusive(a, b) == [k \in 1..Max(b - a, 0) |-> a + k - 1]

\* range(a, b + 1) of Python
MinorRange(a, b) == [k \in 1..Max(b - a + 1, 0) |-> a + k - 1]

\* expand_versions(from_, to): [raised, versions]
expand_versions(from_, to) ==
    LET from_version == parse_version(from_)
        to_version == parse_version(to)
    IN IF VersionLess(to_version, from_version)
       THEN [raised |-> TRUE, versions |-> <<>>]
       ELSE [raised |-> FALSE,
             versions |-> [k \in DOMAIN MinorRange(from_version[2], to_version[2]) |->
                             "0." \o ToString(MinorRange(from_version[2], to_version[2])[k])]]

(* ------------------------------------------------------------------ *)
(* Tags. A tag is [name, manifest_digest, start_ts]; a name is the     *)
(* sequence of its parts, <<"0.2", "-", "a">> for 0.2-a.               *)
(* ------------------------------------------------------------------ *)
HexRevisions == {"a", "b", "c", "d", "e", "f"}

\* TASK_TAG_REGEXP: ^[0-9.]+-[0-9a-f]+$
MatchesTaskTagRegexp(name) ==
    /\ Len(name) = 3
    /\ name[1] \in VersionStrings
    /\ name[2] = "-"
    /\ name[3] \in HexRevisions

TagStr(name) == IF Len(name) = 3 THEN name[1] \o name[2] \o name[3] ELSE name[1]

RECURSIVE FilterSeq(_, _)
FilterSeq(s, keep) ==
    IF s = <<>> THEN <<>>
    ELSE IF keep[1] THEN <<Head(s)>> \o FilterSeq(Tail(s), Tail(keep))
         ELSE FilterSeq(Tail(s), Tail(keep))

only_tags_pinned_by_version_revision(tags_info) ==
    FilterSeq(tags_info, [k \in DOMAIN tags_info |-> MatchesTaskTagRegexp(tags_info[k].name)])

\* The registry lists the tags whose name starts with the pattern "<version>-",
\* in the order the registry reports them.
list_active_repo_tags(repo, tag_name_pattern) ==
    FilterSeq(repo, [k \in DOMAIN repo |->
                        Len(repo[k].name) = 3 /\ repo[k].name[1] \o repo[k].name[2] = tag_name_pattern])

\* sorted(tags, key=start_ts, reverse=True): stable, so equal keys keep their order.
InsertByStartTsDesc(sorted, x) ==
    LET k == Cardinality({j \in DOMAIN sorted : sorted[j].start_ts >= x.start_ts})
    IN SubSeq(sorted, 1, k) \o <<x>> \o SubSeq(sorted, k + 1, Len(sorted))

RECURSIVE SortedByStartTsDesc(_)
SortedByStartTsDesc(s) ==
    IF s = <<>> THEN <<>>
    ELSE InsertByStartTsDesc(SortedByStartTsDesc(SubSeq(s, 1, Len(s) - 1)), s[Len(s)])

RECURSIVE ConcatListings(_, _)
ConcatListings(repo, versions) ==
    IF versions = <<>> THEN <<>>
    ELSE list_active_repo_tags(repo, Head(versions) \o "-") \o ConcatListings(repo, Tail(versions))

\* list_bundle_tags(bundle_upgrade): [raised, versions, tags]
list_bundle_tags(bundle_upgrade, repo) ==
    LET ev == expand_versions(bundle_upgrade.current_value, bundle_upgrade.new_value)
    IN IF ev.raised THEN [raised |-> TRUE, versions |-> <<>>, tags |-> <<>>]
       ELSE [raised |-> FALSE, versions |-> ev.versions,
             tags |-> SortedByStartTsDesc(ConcatListings(repo, ev.versions))]

_parse_version(tag_name) == parse_version(tag_name[1])

\* "version > highest_version_so_far": equal versions dropped
FollowsVersionOrderStrict(version, highest_version_so_far) ==
    highest_version_so_far = None \/ VersionLess(highest_version_so_far[1], version)

\* line 198: the tag follows the version order seen so far
FollowsVersionOrder(version, highest_version_so_far) ==
    highest_version_so_far = None \/ VersionGeq(version, highest_version_so_far[1])

\* One iteration of the loop of drop_out_of_order_versions over reversed(tags_info).
DropStep(st, tag, current_digest, new_digest) ==
    LET isCurrent == st.current_tag_info = None /\ tag.manifest_digest = current_digest
        isNew == ~isCurrent /\ st.new_tag_info = None /\ tag.manifest_digest = new_digest
        version == _parse_version(tag.name)
        st1 == [st EXCEPT
                  !.current_tag_info = IF isCurrent THEN Some(tag) ELSE @,
                  !.is_out_of_order =
                      IF isCurrent /\ st.highest_version_so_far # None
                            /\ VersionLess(version, st.highest_version_so_far[1])
                      THEN TRUE ELSE @,
                  !.new_tag_info = IF isNew THEN Some(tag) ELSE @]
    IN IF FollowsVersionOrder(version, st.highest_version_so_far)
       THEN [st1 EXCEPT !.tags = Append(@, tag), !.highest_version_so_far = Some(version)]
       ELSE st1

RECURSIVE DropLoop(_, _, _, _)
DropLoop(st, reversed_tags, current_digest, new_digest) ==
    IF reversed_tags = <<>> THEN st
    ELSE DropLoop(DropStep(st, Head(reversed_tags), current_digest, new_digest),
                  Tail(reversed_tags), current_digest, new_digest)

\* drop_out_of_order_versions: [tags, current_tag_info, new_tag_info, is_out_of_order]
drop_out_of_order_versions(tags_info, bundle_upgrade) ==
    LET st == DropLoop([tags |-> <<>>, highest_version_so_far |-> None,
                        is_out_of_order |-> FALSE,
                        current_tag_info |-> None, new_tag_info |-> None],
                       Reverse(tags_info),
                       bundle_upgrade.current_digest, bundle_upgrade.new_digest)
    IN [tags |-> SortedByStartTsDesc(st.tags),
        current_tag_info |-> st.current_tag_info,
        new_tag_info |-> st.new_tag_info,
        is_out_of_order |-> st.is_out_of_order]

\* lines 275-283: the positions of the new and the current bundle in the pruned list
RECURSIVE FindPositions(_, _, _, _, _)
FindPositions(tags_info, k, pos, current_digest, new_digest) ==
    IF k > Len(tags_info) THEN pos
    ELSE LET this_digest == tags_info[k].manifest_digest
         IN FindPositions(tags_info, k + 1,
                IF this_digest = new_digest THEN [pos EXCEPT !.new_pos = k - 1]
                ELSE IF this_digest = current_digest THEN [pos EXCEPT !.current_pos = k - 1]
                ELSE pos,
                current_digest, new_digest)

\* only the current bundle is looked for
TagIsMissingCurrentOnly(current_tag_info, new_tag_info) ==
    current_tag_info = None

\* lines 267-273: a bundle of the upgrade is not in the registry
TagIsMissing(current_tag_info, new_tag_info) ==
    current_tag_info = None \/ new_tag_info = None

from_tag_info(item) ==
    [name |-> item.name, manifest_digest |-> item.manifest_digest, start_ts |-> item.start_ts]

\* determine_task_bundle_upgrades_range:
\* [raised, versions, listed, pruned, current_tag_info, new_tag_info, is_out_of_order, range]
determine_task_bundle_upgrades_range(task_bundle_upgrade, repo) ==
    LET listing == list_bundle_tags(task_bundle_upgrade, repo)
        listed == only_tags_pinned_by_version_revision(listing.tags)
        result == drop_out_of_order_versions(listed, task_bundle_upgrade)
        pos == FindPositions(result.tags, 1, [new_pos |-> -1, current_pos |-> -1],
                             task_bundle_upgrade.current_digest,
                             task_bundle_upgrade.new_digest)
        the_range ==
            IF TagIsMissing(result.current_tag_info, result.new_tag_info) THEN <<>>
            ELSE IF result.is_out_of_order THEN PySliceFrom(result.tags, pos.new_pos)
            ELSE PySlice(result.tags, pos.new_pos, pos.current_pos)
    IN IF listing.raised
       THEN [raised |-> TRUE, versions |-> <<>>, listed |-> <<>>, pruned |-> <<>>,
             current_tag_info |-> None, new_tag_info |-> None,
             is_out_of_order |-> FALSE, range |-> <<>>]
       ELSE [raised |-> FALSE, versions |-> listing.versions,
             listed |-> listed, pruned |-> result.tags,
             current_tag_info |-> result.current_tag_info,
             new_tag_info |-> result.new_tag_info,
             is_out_of_order |-> result.is_out_of_order,
             range |-> [k \in DOMAIN the_range |-> from_tag_info(the_range[k])]]

(* ------------------------------------------------------------------ *)
(* State                                                              *)
(* ------------------------------------------------------------------ *)
VARIABLES
    upgrades,              \* migrate's argument: the Renovate upgrade records
    resolver_class,        \* migrate's argument: the resolver strategy
    repo_tags,             \* registry: dep name -> tags as the registry reports them
    manifests,             \* registry: digest -> [has_migration, previous_migration_bundle]
    referrers,             \* registry: digest -> [n, script]: is-migration referrers and the blob
    files,                 \* file system: path -> [exists, kind]
    pc,                    \* position of the main thread in migrate
    error,                 \* the exception migrate ends with, "" for none
    tb_objects,            \* every TaskBundleUpgrade created; its index is its identity
    task_bundle_upgrades,  \* manager._task_bundle_upgrades: entries [key, ref] in insertion order
    package_file_updates,  \* manager._package_file_updates: PackageFile entries in insertion order
    workers,               \* ref -> state of the pool worker resolving that upgrade
    file_idx,              \* apply_migrations: number of package files already handled
    in_handle,             \* apply_migrations: a package file is being handled
    step,                  \* _apply_migration: scripts already executed for this file
    scratch,               \* scratch files that exist
    exec_log,              \* every "bash <script> <file>" run so far
    content,               \* file system: what each package file and pipeline scratch holds
    origin_checksum,       \* the handler's origin_checksum, as the content it was taken of
    cache,                 \* FileBasedCache: key -> value
    contacts,              \* registry: key -> number of requests it got for the key
    client,                \* calls a client of the module makes before migrate
    returned               \* the last of the client's calls and what it returned

inputs == <<upgrades, resolver_class, repo_tags, manifests, referrers, files>>
manager == <<tb_objects, task_bundle_upgrades, package_file_updates>>
applier == <<file_idx, in_handle, step, scratch, exec_log, content, origin_checksum>>
facade == <<cache, contacts, client, returned>>
vars == <<inputs, manager, applier, facade, pc, error, workers>>

(* ------------------------------------------------------------------ *)
(* Registry: the facade over the OCI registry and its cache           *)
(* ------------------------------------------------------------------ *)
ShellScript == "text/x-shellscript"
Signature == "application/vnd.dev.cosign.artifact.sig.v1+json"

\* Container(image): the parts of an image reference; "" stands for a part left out.
Images == {"q/a", "q/b/a", "q/a@d9"}
Container(image) ==
    CASE image = "q/a" -> [namespace |-> "q", repository |-> "a", digest |-> ""]
      [] image = "q/b/a" -> [namespace |-> "q/b", repository |-> "a", digest |-> ""]
      [] image = "q/a@d9" -> [namespace |-> "q", repository |-> "a", digest |-> "d9"]

\* c.namespace.replace('/', '_')
NamespaceKey(namespace) ==
    CASE namespace = "q" -> "q"
      [] namespace = "q/b" -> "q_b"

\* Registry._container_key(c, digest)
_container_key(c, digest) ==
    LET d == IF digest # "" THEN digest ELSE IF c.digest # "" THEN c.digest ELSE "None"
    IN NamespaceKey(c.namespace) \o "-" \o c.repository \o "-" \o d

json_dumps(value) == <<"json", value>>
json_loads(text) == text[2]

\* What the registry holds besides the bundles: referrer j of bundle d, the blob of its
\* first layer, and the signature every bundle has.
ReferrerDigest(d, j) == "ref" \o ToString(j) \o "-" \o d
BlobDigest(d) == "blob-" \o d
SignatureDigest(d) == "sig-" \o d
ReferrerDigests == {ReferrerDigest(d, j) : d \in DOMAIN referrers, j \in 1..2}
ReferentOf(x) ==
    CHOOSE d \in DOMAIN referrers : \E j \in 1..2 : ReferrerDigest(d, j) = x

\* the registry's answer to GET manifest
RegistryManifest(digest) ==
    IF digest \in DOMAIN manifests
    THEN [annotations |-> manifests[digest], layers |-> <<>>]
    ELSE [annotations |-> [has_migration |-> FALSE, previous_migration_bundle |-> ""],
          layers |-> <<[digest |-> BlobDigest(ReferentOf(digest))]>>]

\* the registry's answer to GET blob
RegistryBlob(digest) ==
    referrers[CHOOSE d \in DOMAIN referrers : BlobDigest(d) = digest].script

\* the registry's answer to GET referrers?artifactType=: the image index's manifests
RegistryReferrers(digest, artifact_type) ==
    LET scripts == [j \in 1..referrers[digest].n |->
                       [digest |-> ReferrerDigest(digest, j), artifact_type |-> ShellScript,
                        is_migration |-> TRUE]]
        signature == <<[digest |-> SignatureDigest(digest), artifact_type |-> Signature,
                        is_migration |-> FALSE]>>
    IN IF artifact_type = "" THEN scripts \o signature
       ELSE IF artifact_type = ShellScript THEN scripts
       ELSE IF artifact_type = Signature THEN signature
       ELSE <<>>

\* the element of a singleton: a value computed once and named
Value(S) == CHOOSE x \in S : TRUE

\* The facade's state is [cache, contacts]: the cache, and how many requests the
\* registry got for each key.
Contact(st, key, value) ==
    [cache |-> (key :> value) @@ st.cache,
     contacts |-> (key :> ((IF key \in DOMAIN st.contacts THEN st.contacts[key] ELSE 0) + 1))
                     @@ st.contacts]

\* the fetched value is returned and not stored
CachedNotStored(st, key, fetched) ==
    IF key \in DOMAIN st.cache
    THEN [st |-> st, value |-> st.cache[key]]
    ELSE [st |-> [st EXCEPT !.contacts = Contact(st, key, fetched).contacts], value |-> fetched]

\* registry.py 82-87, 98-102, 130-135: the cached value, or the fetched one, stored
Cached(st, key, fetched) ==
    IF key \in DOMAIN st.cache
    THEN [st |-> st, value |-> st.cache[key]]
    ELSE [st |-> Contact(st, key, fetched), value |-> fetched]

\* Registry.get_manifest(container): [st, value]
get_manifest(st, container) ==
    LET r == Cached(st, "manifest-" \o _container_key(container, ""),
                    json_dumps(RegistryManifest(container.digest)))
    IN [st |-> r.st, value |-> json_loads(r.value)]

\* Registry.get_artifact(container, digest): [st, value]
get_artifact(st, container, digest) ==
    Cached(st, "blob-" \o _container_key(container, digest), RegistryBlob(digest))

\* Registry.list_referrers(container, artifact_type): [st, value]
list_referrers(st, container, artifact_type) ==
    LET r == Cached(st, "referrers-" \o _container_key(container, ""),
                    json_dumps(RegistryReferrers(container.digest, artifact_type)))
    IN [st |-> r.st, value |-> json_loads(r.value)]

(* ------------------------------------------------------------------ *)
(* TaskBundleUpgrade, TaskBundleUpgradesManager                       *)
(* ------------------------------------------------------------------ *)
current_bundle(u) == u.dep_name \o ":" \o u.current_value \o "@" \o u.current_digest
new_bundle(u) == u.dep_name \o ":" \o u.new_value \o "@" \o u.new_digest

TaskBundleUpgrade(upgrade) ==
    [dep_name |-> upgrade.depName,
     current_value |-> upgrade.currentValue,
     current_digest |-> upgrade.currentDigest,
     new_value |-> upgrade.newValue,
     new_digest |-> upgrade.newDigest,
     migrations |-> <<>>]

PackageFile(upgrade) ==
    [file_path |-> upgrade.packageFile,
     parent_dir |-> upgrade.parentDir,
     task_bundle_upgrades |-> <<>>]

\* dict.get(key) on a dict kept as a sequence of entries: the 1-based position, 0 for None
EntryOf(entries, key) ==
    IF \E k \in DOMAIN entries : entries[k].key = key
    THEN CHOOSE k \in DOMAIN entries : entries[k].key = key
    ELSE 0

PackageFileOf(pfs, file_path) ==
    IF \E k \in DOMAIN pfs : pfs[k].file_path = file_path
    THEN CHOOSE k \in DOMAIN pfs : pfs[k].file_path = file_path
    ELSE 0

\* every record keeps its own new TaskBundleUpgrade
tb_update_fresh(entries, key, new_ref) == new_ref

\* lines 394-397: the upgrade a record stands for is the stored one, if any
tb_update(entries, key, new_ref) ==
    IF EntryOf(entries, key) = 0 THEN new_ref ELSE entries[EntryOf(entries, key)].ref

\* lines 403: what a package file gets for a record
AppendUpgrade(task_bundle_upgrades_of_file, ref) == Append(task_bundle_upgrades_of_file, ref)

\* the record met last replaces the stored upgrade
StoreUpgradeLastWins(entries, key, new_ref) ==
    IF EntryOf(entries, key) = 0
    THEN Append(entries, [key |-> key, ref |-> new_ref])
    ELSE [entries EXCEPT ![EntryOf(entries, key)].ref = new_ref]

\* lines 395-396: the upgrade is stored when its key has no stored upgrade yet
StoreUpgrade(entries, key, new_ref) ==
    IF EntryOf(entries, key) = 0
    THEN Append(entries, [key |-> key, ref |-> new_ref])
    ELSE entries

\* One iteration of the loop of _collect.
CollectStep(m, upgrade) ==
    LET task_bundle_upgrade == TaskBundleUpgrade(upgrade)
        package_file == PackageFile(upgrade)
        objects == Append(m.objects, task_bundle_upgrade)
        new_ref == Len(objects)
        key == current_bundle(task_bundle_upgrade)
        entries == StoreUpgrade(m.entries, key, new_ref)
        ref == tb_update(m.entries, key, new_ref)
        pfs == IF PackageFileOf(m.pfs, package_file.file_path) = 0
               THEN Append(m.pfs, package_file)
               ELSE m.pfs
        pf == PackageFileOf(pfs, package_file.file_path)
    IN [objects |-> objects,
        entries |-> entries,
        pfs |-> [pfs EXCEPT ![pf].task_bundle_upgrades = AppendUpgrade(@, ref)]]

RECURSIVE _collect(_, _)
_collect(m, ups) ==
    IF ups = <<>> THEN m ELSE _collect(CollectStep(m, Head(ups)), Tail(ups))

StoredRefs == {task_bundle_upgrades[k].ref : k \in DOMAIN task_bundle_upgrades}

\* TaskBundleUpgradesManager.__init__
Construct ==
    /\ pc = "start"
    /\ client = <<>>
    /\ LET m == _collect([objects |-> <<>>, entries |-> <<>>, pfs |-> <<>>], upgrades)
       IN /\ tb_objects' = m.objects
          /\ task_bundle_upgrades' = m.entries
          /\ package_file_updates' = m.pfs
    /\ pc' = "constructed"
    /\ UNCHANGED <<inputs, facade, applier, error, workers>>

(* ------------------------------------------------------------------ *)
(* Resolver.resolve: one pool worker per deduplicated upgrade         *)
(* ------------------------------------------------------------------ *)
NoDetermination ==
    [raised |-> FALSE, versions |-> <<>>, listed |-> <<>>, pruned |-> <<>>,
     current_tag_info |-> None, new_tag_info |-> None,
     is_out_of_order |-> FALSE, range |-> <<>>]

\* the main thread is in the "with ThreadPoolExecutor()" block, or leaving it
PoolRunning == pc \in {"resolving", "shutting_down"}

\* resolve_migrations, up to the submission of every upgrade to the pool
ResolveMigrations ==
    /\ pc = "constructed"
    /\ workers' = [r \in StoredRefs |->
                     [pc |-> "pending", det |-> NoDetermination, i |-> 0, visits |-> <<>>,
                      late |-> FALSE]]
    /\ pc' = "resolving"
    /\ UNCHANGED <<inputs, facade, manager, applier, error>>

\* _resolve, line 488: a pool thread starts the worker, which computes the upgrade
\* range or gets the exception of expand_versions
WorkerDetermine(r) ==
    /\ PoolRunning
    /\ workers[r].pc = "pending"
    /\ LET det == determine_task_bundle_upgrades_range(tb_objects[r], repo_tags[tb_objects[r].dep_name])
       IN workers' = [workers EXCEPT ![r].det = det,
                                     ![r].late = (pc = "shutting_down"),
                                     ![r].pc = IF det.raised THEN "raised" ELSE "iterating"]
    /\ UNCHANGED <<inputs, facade, manager, applier, pc, error>>

\* Container.uri_with_tag of <dep_name>:<tag>@<digest>
uri_with_tag(dep_name, tag_info) ==
    dep_name \o ":" \o TagStr(tag_info.name) \o "@" \o tag_info.manifest_digest

TaskBundleMigration(task_bundle, migration_script) ==
    [task_bundle |-> task_bundle, migration_script |-> migration_script]

\* no number of migration referrers is refused
TooManyDescriptorsNever(descriptors) == FALSE

\* line 444: more than one referrer is a migration
TooManyDescriptors(descriptors) == Len(descriptors) > 1

\* lines 451-455: the referrer's manifest has been fetched; the blob of its first layer
FetchArtifact(manifest, referrer) ==
    Value({[st |-> artifact.st, raised |-> FALSE, error |-> "", script |-> Some(artifact.value)] :
             artifact \in {get_artifact(manifest.st, referrer,
                                        manifest.value.layers[1].digest)}})

\* lines 439-456: the referrers have been listed
FetchOfIndex(image_index, c) ==
    LET descriptors == FilterSeq(image_index.value,
                                 [k \in DOMAIN image_index.value |-> image_index.value[k].is_migration])
        referrer == [c EXCEPT !.digest = descriptors[1].digest]
    IN IF TooManyDescriptors(descriptors)
       THEN [st |-> image_index.st, raised |-> TRUE,
             error |-> "IncorrectMigrationAttachment", script |-> None]
       ELSE IF descriptors # <<>>
       THEN Value({FetchArtifact(manifest, referrer) :
                     manifest \in {get_manifest(image_index.st, referrer)}})
       ELSE [st |-> image_index.st, raised |-> FALSE, error |-> "", script |-> None]

\* fetch_migration_file(image, digest): [st, raised, error, script], script None when
\* no referrer is a migration
fetch_migration_file(st, image, digest) ==
    IF Container(image).digest # ""
    THEN [st |-> st, raised |-> TRUE, error |-> "ValueError", script |-> None]
    ELSE Value({FetchOfIndex(image_index, [Container(image) EXCEPT !.digest = digest]) :
                  image_index \in {list_referrers(st, [Container(image) EXCEPT !.digest = digest],
                                                  ShellScript)}})

\* "if script_content:": neither None nor the empty string
IsScript(script) == script # None /\ script[1] # ""

\* lines 514-524 and 547-563: the bundle's manifest has been fetched
VisitOfManifest(manifest_json, dep_name, tag_info) ==
    LET annotations == manifest_json.value.annotations
    IN IF ~annotations.has_migration
       THEN [st |-> manifest_json.st, raised |-> FALSE, yields |-> <<>>,
             link |-> annotations.previous_migration_bundle]
       ELSE Value({[st |-> fetched.st, raised |-> fetched.raised,
                    yields |-> IF ~fetched.raised /\ IsScript(fetched.script)
                               THEN <<TaskBundleMigration(uri_with_tag(dep_name, tag_info),
                                                          fetched.script[1])>>
                               ELSE <<>>,
                    link |-> annotations.previous_migration_bundle] :
                     fetched \in {fetch_migration_file(manifest_json.st, dep_name,
                                                       tag_info.manifest_digest)}})

\* What one visit of a bundle does: [st, raised, yields, link], lines 510-524 and 543-563
VisitBundle(st, dep_name, tag_info) ==
    Value({VisitOfManifest(manifest_json, dep_name, tag_info) :
             manifest_json \in {get_manifest(st, [Container(dep_name) EXCEPT
                                                     !.digest = tag_info.manifest_digest])}})

FacadeState == [cache |-> cache, contacts |-> contacts]
EmptyFacade == [cache |-> <<>>, contacts |-> <<>>]

\* every upgrade gets what one worker yields
AppendMigrationsToAll(objects, r, yields) ==
    [k \in DOMAIN objects |-> [objects[k] EXCEPT !.migrations = @ \o yields]]

\* line 490: tb_upgrade.migrations.append(tb_migration), on the worker's own upgrade
AppendMigrations(objects, r, yields) ==
    [objects EXCEPT ![r].migrations = @ \o yields]

\* SimpleIterationResolver._resolve_migrations: one iteration of the for loop
SimpleStep(r) ==
    /\ PoolRunning
    /\ resolver_class = "SimpleIterationResolver"
    /\ workers[r].pc = "iterating"
    /\ workers[r].i < Len(workers[r].det.range)
    /\ \E visit \in {VisitBundle(FacadeState, tb_objects[r].dep_name,
                                   workers[r].det.range[workers[r].i + 1])} :
       LET w == workers[r]
       IN /\ workers' = [workers EXCEPT ![r].visits = Append(@, w.i),
                                        ![r].i = w.i + 1,
                                        ![r].pc = IF visit.raised THEN "raised" ELSE "iterating"]
          /\ tb_objects' = AppendMigrations(tb_objects, r, visit.yields)
          /\ cache' = visit.st.cache
          /\ contacts' = visit.st.contacts
    /\ UNCHANGED <<inputs, client, returned, task_bundle_upgrades, package_file_updates,
                   applier, pc, error>>

\* SimpleIterationResolver._resolve_migrations: the range is exhausted
SimpleExhausted(r) ==
    /\ PoolRunning
    /\ resolver_class = "SimpleIterationResolver"
    /\ workers[r].pc = "iterating"
    /\ workers[r].i = Len(workers[r].det.range)
    /\ workers' = [workers EXCEPT ![r].pc = "exhausted"]
    /\ UNCHANGED <<inputs, facade, manager, applier, pc, error>>

\* SimpleIterationResolver._resolve_migrations run to its end: [st, raised, yields]
RECURSIVE SimpleOutcomeFrom(_, _, _)
SimpleOutcomeFrom(st, dep_name, upgrades_range) ==
    IF upgrades_range = <<>> THEN [st |-> st, raised |-> FALSE, yields |-> <<>>]
    ELSE LET visit == VisitBundle(st, dep_name, Head(upgrades_range))
             rest == SimpleOutcomeFrom(visit.st, dep_name, Tail(upgrades_range))
         IN IF visit.raised THEN [st |-> visit.st, raised |-> TRUE, yields |-> <<>>]
            ELSE [st |-> rest.st, raised |-> rest.raised, yields |-> visit.yields \o rest.yields]

\* the same run by a worker on its own, with nothing cached
SimpleOutcome(dep_name, upgrades_range) ==
    SimpleOutcomeFrom(EmptyFacade, dep_name, upgrades_range)

\* LinkedMigrationsResolver._resolve_migrations, lines 535-537
LinkedEmptyRange(r) ==
    /\ PoolRunning
    /\ resolver_class = "LinkedMigrationsResolver"
    /\ workers[r].pc = "iterating"
    /\ workers[r].det.range = <<>>
    /\ workers' = [workers EXCEPT ![r].pc = "exhausted"]
    /\ UNCHANGED <<inputs, facade, manager, applier, pc, error>>

\* the walk goes on at the newest bundle when the link leaves the range
NextLinkedIndexWraps(manifest_digests, digest) ==
    IF digest = "" THEN -1 ELSE Max(PyIndex(manifest_digests, digest), 0)

\* the walk stops after the first bundle
NextLinkedIndexStops(manifest_digests, digest) == -1

\* lines 561-577: the index the link leads to, -1 when the walk stops
NextLinkedIndex(manifest_digests, digest) ==
    IF digest = "" THEN -1 ELSE PyIndex(manifest_digests, digest)

ManifestDigests(upgrades_range) ==
    [k \in DOMAIN upgrades_range |-> upgrades_range[k].manifest_digest]

\* LinkedMigrationsResolver._resolve_migrations: one iteration of the while loop
LinkedStep(r) ==
    /\ PoolRunning
    /\ resolver_class = "LinkedMigrationsResolver"
    /\ workers[r].pc = "iterating"
    /\ workers[r].det.range # <<>>
    /\ Len(workers[r].visits) < MaxVisits
    /\ \E visit \in {VisitBundle(FacadeState, tb_objects[r].dep_name,
                                   workers[r].det.range[workers[r].i + 1])} :
       LET w == workers[r]
           upgrades_range == w.det.range
           next == NextLinkedIndex(ManifestDigests(upgrades_range), visit.link)
       IN /\ workers' = [workers EXCEPT
                           ![r].visits = Append(@, w.i),
                           ![r].i = IF visit.raised \/ next = -1 THEN w.i ELSE next,
                           ![r].pc = IF visit.raised THEN "raised"
                                     ELSE IF next = -1 THEN "exhausted" ELSE "iterating"]
          /\ tb_objects' = AppendMigrations(tb_objects, r, visit.yields)
          /\ cache' = visit.st.cache
          /\ contacts' = visit.st.contacts
    /\ UNCHANGED <<inputs, client, returned, task_bundle_upgrades, package_file_updates,
                   applier, pc, error>>

\* LinkedMigrationsResolver._resolve_migrations run from index i for at most fuel
\* visits: [st, raised, yields, visits, stopped]
RECURSIVE LinkedOutcomeFrom(_, _, _, _, _)
LinkedOutcomeFrom(st, dep_name, upgrades_range, i, fuel) ==
    IF upgrades_range = <<>> \/ fuel = 0
    THEN [st |-> st, raised |-> FALSE, yields |-> <<>>, visits |-> <<>>,
          stopped |-> upgrades_range = <<>>]
    ELSE LET visit == VisitBundle(st, dep_name, upgrades_range[i + 1])
             next == NextLinkedIndex(ManifestDigests(upgrades_range), visit.link)
             rest == LinkedOutcomeFrom(visit.st, dep_name, upgrades_range, next, fuel - 1)
         IN IF visit.raised
            THEN [st |-> visit.st, raised |-> TRUE, yields |-> visit.yields,
                  visits |-> <<i>>, stopped |-> TRUE]
            ELSE IF next = -1
            THEN [st |-> visit.st, raised |-> FALSE, yields |-> visit.yields,
                  visits |-> <<i>>, stopped |-> TRUE]
            ELSE [st |-> rest.st, raised |-> rest.raised, yields |-> visit.yields \o rest.yields,
                  visits |-> <<i>> \o rest.visits, stopped |-> rest.stopped]

\* the same run by a worker on its own, with nothing cached
LinkedOutcome(dep_name, upgrades_range) ==
    LinkedOutcomeFrom(EmptyFacade, dep_name, upgrades_range, 0, MaxVisits)

\* _resolve, line 493: migrations are reversed into apply order
WorkerReverse(r) ==
    /\ PoolRunning
    /\ workers[r].pc = "exhausted"
    /\ tb_objects' = [tb_objects EXCEPT ![r].migrations = Reverse(@)]
    /\ workers' = [workers EXCEPT ![r].pc = "done"]
    /\ UNCHANGED <<inputs, facade, task_bundle_upgrades, package_file_updates, applier, pc, error>>

WorkerFinished(r) == workers[r].pc \in {"done", "raised"}

\* the pool is left without waiting for its workers
PoolShutDownNoWait(ws) == TRUE

\* line 495: leaving the "with" block is executor.shutdown(wait=True), which returns
\* when every submitted worker has run to its end
PoolShutDown(ws) == \A r \in DOMAIN ws : ws[r].pc \in {"done", "raised"}

\* lines 497-498: every future.result() returned, the pool shuts down, resolve returns
ResolveReturns ==
    /\ pc = "resolving"
    /\ \A r \in DOMAIN workers : workers[r].pc = "done"
    /\ PoolShutDown(workers)
    /\ pc' = "applying"
    /\ UNCHANGED <<inputs, facade, manager, applier, error, workers>>

\* lines 497-498: future.result() raises the exception of a worker that failed
ResolveObservesFailure ==
    /\ pc = "resolving"
    /\ \E r \in DOMAIN workers : workers[r].pc = "raised"
    /\ pc' = "shutting_down"
    /\ UNCHANGED <<inputs, facade, manager, applier, error, workers>>

\* migrate goes on to apply_migrations
PcAfterFailedResolveSwallowed == "applying"

\* lines 465-467: migrate does not catch what resolve_migrations raises
PcAfterFailedResolve == "raised"

\* the pool has shut down and the exception leaves resolve and migrate
ResolveRaises ==
    /\ pc = "shutting_down"
    /\ PoolShutDown(workers)
    /\ pc' = PcAfterFailedResolve
    /\ error' = "resolve"
    /\ UNCHANGED <<inputs, facade, manager, applier, workers>>

(* ------------------------------------------------------------------ *)
(* A client of the registry facade and of fetch_migration_file        *)
(* ------------------------------------------------------------------ *)
\* what a call returns: [st, value]
Call(st, call) ==
    CASE call.op = "get_manifest" ->
            get_manifest(st, [Container(call.image) EXCEPT !.digest = call.digest])
      [] call.op = "get_artifact" ->
            get_artifact(st, Container(call.image), call.digest)
      [] call.op = "list_referrers" ->
            list_referrers(st, [Container(call.image) EXCEPT !.digest = call.digest],
                           call.artifact_type)
      [] call.op = "fetch_migration_file" ->
            LET fetched == fetch_migration_file(st, call.image, call.digest)
            IN [st |-> fetched.st,
                value |-> [raised |-> fetched.raised, error |-> fetched.error,
                           script |-> fetched.script]]

\* the cache key a call of the facade uses
KeyOfCall(call) ==
    CASE call.op = "get_manifest" ->
            "manifest-" \o _container_key([Container(call.image) EXCEPT !.digest = call.digest], "")
      [] call.op = "get_artifact" ->
            "blob-" \o _container_key(Container(call.image), call.digest)
      [] call.op \in {"list_referrers", "fetch_migration_file"} ->
            "referrers-" \o _container_key([Container(call.image) EXCEPT !.digest = call.digest], "")

FacadeOps == {"get_manifest", "get_artifact", "list_referrers"}

NoCall == [call |-> [op |-> "none"], value |-> "none", hit |-> FALSE]

\* the client makes its next call
ClientCall ==
    /\ pc = "start"
    /\ client # <<>>
    /\ \E r \in {Call(FacadeState, Head(client))} :
          /\ cache' = r.st.cache
          /\ contacts' = r.st.contacts
          /\ returned' = [call |-> Head(client), value |-> r.value,
                           hit |-> Head(client).op \in FacadeOps
                                      /\ KeyOfCall(Head(client)) \in DOMAIN cache]
    /\ client' = Tail(client)
    /\ UNCHANGED <<inputs, manager, applier, pc, error, workers>>

(* ------------------------------------------------------------------ *)
(* apply_migrations and MigrationFileOperation                        *)
(* ------------------------------------------------------------------ *)
RECURSIVE Scripts(_)
\* the nested loops of _apply_migration, flattened: [ref, migration] in execution order
Scripts(task_bundle_upgrades_of_file) ==
    IF task_bundle_upgrades_of_file = <<>> THEN <<>>
    ELSE LET ref == Head(task_bundle_upgrades_of_file)
         IN [k \in DOMAIN tb_objects[ref].migrations |->
                [ref |-> ref, migration |-> tb_objects[ref].migrations[k]]]
            \o Scripts(Tail(task_bundle_upgrades_of_file))

MigrationScratch(k) == <<k, "-migration-file">>
PipelineScratch(k) == <<k, "-pipeline">>
PackagePath(file_path) == <<0, file_path>>

\* lines 346-350: handle_pipeline_run_file makes a scratch file for the embedded pipeline
ScratchOfHandler(k, kind) ==
    IF kind = "PipelineRun" THEN {PipelineScratch(k)} ELSE {}

\* What is left of the scratch files when the handling of package file k ends
ScratchAfterHandling(live, k) == live \ {MigrationScratch(k)}

\* the file "bash <script> <file>" runs on
TargetOf(k, file_path, kind) ==
    IF kind = "PipelineRun" THEN PipelineScratch(k) ELSE PackagePath(file_path)

\* The bytes of a file are [top, spec, fmt]: the document's top-level part, its
\* pipeline spec (the edits made to it so far) and the formatting of the text.
\* file_checksum is equal exactly for equal bytes.
file_checksum(bytes) == bytes

\* load_yaml: the document of the bytes; dump_yaml: the serializer's bytes of a document
load_yaml(bytes) == [top |-> bytes.top, spec |-> bytes.spec]
dump_yaml(doc) == [top |-> doc.top, spec |-> doc.spec, fmt |-> "dumped"]

\* lines 349-350: the scratch of a pipeline-run file holds {"spec": doc.spec.pipelineSpec}
EmbeddedPipeline(loaded_doc) == dump_yaml([top |-> "none", spec |-> loaded_doc.spec])

\* What a script may do to the file it is run on.
Effects == {"noop", "edit", "edit_top", "revert"}

\* line 321: the bytes "bash <script> <file>" leaves in the file
RunEffect(bytes, effect, task_bundle, origin) ==
    CASE effect = "noop" -> bytes
      [] effect = "edit" -> [bytes EXCEPT !.spec = Append(@, task_bundle), !.fmt = "yq"]
      [] effect = "edit_top" -> [bytes EXCEPT !.top = "edited", !.fmt = "yq"]
      [] effect = "revert" -> origin

\* the package file is dumped whatever the checksum
RewritePipelineFileAlways(bytes, origin) == dump_yaml(load_yaml(bytes))

\* lines 332-338: the load-dump round trip of a pipeline file that the batch changed
RewritePipelineFile(bytes, origin) ==
    IF file_checksum(bytes) # origin THEN dump_yaml(load_yaml(bytes)) ELSE bytes

\* the whole scratch document is written back
RewritePipelineRunFileWhole(file_bytes, scratch_bytes, origin) ==
    IF file_checksum(scratch_bytes) # origin THEN dump_yaml(load_yaml(scratch_bytes))
    ELSE file_bytes

\* lines 355-358: spec.pipelineSpec of the document is replaced and the document dumped
RewritePipelineRunFile(file_bytes, scratch_bytes, origin) ==
    IF file_checksum(scratch_bytes) # origin
    THEN dump_yaml([top |-> load_yaml(file_bytes).top, spec |-> load_yaml(scratch_bytes).spec])
    ELSE file_bytes

\* the file is put back as it was before the batch
AfterFailureRolledBack(bytes, origin) == origin

\* lines 323-326: check_returncode raises, the finally block closes and unlinks the
\* script's scratch file and leaves the file the script ran on as it is
AfterFailure(bytes, origin) == bytes

\* every path is taken to exist
PathExistsAlways(file_path) == TRUE

\* line 411: os.path.exists(package_file.file_path), asked when the file is reached
PathExists(file_path) == files[file_path].exists

\* apply_migrations, lines 411-412
MissingFile ==
    /\ pc = "applying"
    /\ ~in_handle
    /\ file_idx < Len(package_file_updates)
    /\ ~PathExists(package_file_updates[file_idx + 1].file_path)
    /\ pc' = "raised"
    /\ error' = "missing file"
    /\ UNCHANGED <<inputs, facade, manager, applier, workers>>

\* apply_migrations, lines 413-414, up to the first script of _apply_migration
BeginFile ==
    /\ pc = "applying"
    /\ ~in_handle
    /\ file_idx < Len(package_file_updates)
    /\ PathExists(package_file_updates[file_idx + 1].file_path)
    /\ in_handle' = TRUE
    /\ step' = 0
    /\ LET file_path == package_file_updates[file_idx + 1].file_path
           kind == files[file_path].kind
       IN /\ scratch' = scratch \cup ScratchOfHandler(file_idx + 1, kind)
                                \cup {MigrationScratch(file_idx + 1)}
          /\ IF kind = "PipelineRun"
             THEN LET temp == EmbeddedPipeline(load_yaml(content[PackagePath(file_path)]))
                  IN /\ content' = [t \in DOMAIN content \cup {PipelineScratch(file_idx + 1)} |->
                                       IF t = PipelineScratch(file_idx + 1) THEN temp
                                       ELSE content[t]]
                     /\ origin_checksum' = file_checksum(temp)
             ELSE /\ content' = content
                  /\ origin_checksum' = file_checksum(content[PackagePath(file_path)])
    /\ UNCHANGED <<inputs, facade, manager, file_idx, exec_log, pc, error, workers>>

Execution(k, n) ==
    LET pf == package_file_updates[k]
        s == Scripts(pf.task_bundle_upgrades)[n]
    IN [file_path |-> pf.file_path,
        target |-> TargetOf(k, pf.file_path, files[pf.file_path].kind),
        ref |-> s.ref,
        task_bundle |-> s.migration.task_bundle,
        script |-> s.migration.migration_script]

\* line 314: migration.migration_script.encode("utf-8"), the bytes of the script; the
\* scripts of the registry have different lengths
ScriptLength(script) ==
    CASE script = "script-d2" -> 1
      [] script = "script-d3" -> 3
      [] OTHER -> 2
encode(script) == [k \in 1..ScriptLength(script) |-> <<script, k>>]

\* os.truncate(fd, length) of a file that is not shorter than length
truncate(bytes, length) == SubSeq(bytes, 1, length)

\* os.lseek(fd, 0, 0) and os.write(fd, content): the bytes written replace those at
\* the start of the file, the bytes after them stay
write_from_start(bytes, data) ==
    data \o SubSeq(bytes, Len(data) + 1, Len(bytes))

\* the scratch file is never truncated
ShorterThanWrittenNever(length, prev_size) == FALSE

\* line 315: len(content) < prev_size
ShorterThanWritten(length, prev_size) == length < prev_size

\* lines 313-317: the script is written to the scratch file; [bytes, prev_size]
WriteMigrationFile(migration_file, script) ==
    LET content_ == encode(script)
        kept == IF ShorterThanWritten(Len(content_), migration_file.prev_size)
                THEN truncate(migration_file.bytes, Len(content_))
                ELSE migration_file.bytes
    IN [bytes |-> write_from_start(kept, content_), prev_size |-> Len(content_)]

\* lines 302-303: the scratch file mkstemp made is empty and prev_size is 0; after a
\* run it is what the last run of the log left
MigrationFile(log, n) ==
    IF n = 0 THEN [bytes |-> <<>>, prev_size |-> 0]
    ELSE [bytes |-> log[Len(log)].migration_file, prev_size |-> log[Len(log)].prev_size]

\* one run of a script as the log keeps it, with what the scratch file held
Ran(execution, migration_file, effect, returncode) ==
    [file_path |-> execution.file_path, target |-> execution.target,
     ref |-> execution.ref, task_bundle |-> execution.task_bundle,
     script |-> execution.script, effect |-> effect, returncode |-> returncode,
     migration_file |-> migration_file.bytes, prev_size |-> migration_file.prev_size]

\* _apply_migration, lines 313-323: the script exits 0
RunScript ==
    /\ pc = "applying"
    /\ in_handle
    /\ step < Len(Scripts(package_file_updates[file_idx + 1].task_bundle_upgrades))
    /\ \E effect \in Effects :
          LET e == Execution(file_idx + 1, step + 1)
          IN /\ exec_log' = Append(exec_log,
                                   Ran(e, WriteMigrationFile(MigrationFile(exec_log, step), e.script),
                                       effect, 0))
             /\ content' = [content EXCEPT ![e.target] =
                               RunEffect(@, effect, e.task_bundle, origin_checksum)]
    /\ step' = step + 1
    /\ UNCHANGED <<inputs, facade, manager, file_idx, in_handle, scratch, origin_checksum,
                   pc, error, workers>>

\* _apply_migration, lines 323-326: the script exits non-zero, check_returncode raises
RunScriptFails ==
    /\ pc = "applying"
    /\ in_handle
    /\ step < Len(Scripts(package_file_updates[file_idx + 1].task_bundle_upgrades))
    /\ \E effect \in Effects :
          LET e == Execution(file_idx + 1, step + 1)
          IN /\ exec_log' = Append(exec_log,
                                   Ran(e, WriteMigrationFile(MigrationFile(exec_log, step), e.script),
                                       effect, 1))
             /\ content' = [content EXCEPT ![e.target] =
                               AfterFailure(RunEffect(@, effect, e.task_bundle, origin_checksum),
                                            origin_checksum)]
    /\ scratch' = ScratchAfterHandling(scratch, file_idx + 1)
    /\ in_handle' = FALSE
    /\ pc' = "raised"
    /\ error' = "migration failed"
    /\ UNCHANGED <<inputs, facade, manager, file_idx, step, origin_checksum, workers>>

\* the handling of one package file returns
EndFile ==
    /\ pc = "applying"
    /\ in_handle
    /\ step = Len(Scripts(package_file_updates[file_idx + 1].task_bundle_upgrades))
    /\ scratch' = ScratchAfterHandling(scratch, file_idx + 1)
    /\ LET file_path == package_file_updates[file_idx + 1].file_path
           kind == files[file_path].kind
       IN content' = [content EXCEPT ![PackagePath(file_path)] =
                         IF kind = "PipelineRun"
                         THEN RewritePipelineRunFile(@, content[PipelineScratch(file_idx + 1)],
                                                     origin_checksum)
                         ELSE RewritePipelineFile(@, origin_checksum)]
    /\ in_handle' = FALSE
    /\ file_idx' = file_idx + 1
    /\ UNCHANGED <<inputs, facade, manager, step, exec_log, origin_checksum, pc, error, workers>>

\* apply_migrations returns, and migrate with it
ApplyReturns ==
    /\ pc = "applying"
    /\ ~in_handle
    /\ file_idx = Len(package_file_updates)
    /\ pc' = "done"
    /\ UNCHANGED <<inputs, facade, manager, applier, error, workers>>

Next ==
    \/ ClientCall
    \/ Construct
    \/ ResolveMigrations
    \/ \E r \in DOMAIN workers :
          \/ WorkerDetermine(r)
          \/ SimpleStep(r)
          \/ SimpleExhausted(r)
          \/ LinkedEmptyRange(r)
          \/ LinkedStep(r)
          \/ WorkerReverse(r)
    \/ ResolveReturns
    \/ ResolveObservesFailure
    \/ ResolveRaises
    \/ MissingFile
    \/ BeginFile
    \/ RunScript
    \/ RunScriptFails
    \/ EndFile
    \/ ApplyReturns

(* ------------------------------------------------------------------ *)
(* Initial states: the inputs of migrate and the registry it reads    *)
(* ------------------------------------------------------------------ *)
Record(dep, cv, cd, nv, nd, file) ==
    [depName |-> dep, currentValue |-> cv, currentDigest |-> cd,
     newValue |-> nv, newDigest |-> nd, packageFile |-> file, parentDir |-> "."]

Tag(version, revision, digest, ts) ==
    [name |-> <<version, "-", revision>>, manifest_digest |-> digest, start_ts |-> ts]

Revisions == <<"a", "b", "c", "d", "e", "f">>
ResolverClasses == {"SimpleIterationResolver", "LinkedMigrationsResolver"}

\* what every package file holds before migrate
OriginalBytes == [top |-> "orig", spec |-> <<>>, fmt |-> "orig"]

InitFull(ups, rc, repo, mans, refs, fs, calls) ==
    /\ upgrades = ups
    /\ resolver_class = rc
    /\ repo_tags = repo
    /\ manifests = mans
    /\ referrers = refs
    /\ files = fs
    /\ pc = "start"
    /\ error = ""
    /\ tb_objects = <<>>
    /\ task_bundle_upgrades = <<>>
    /\ package_file_updates = <<>>
    /\ workers = <<>>
    /\ file_idx = 0
    /\ in_handle = FALSE
    /\ step = 0
    /\ scratch = {}
    /\ exec_log = <<>>
    /\ content = [t \in {PackagePath(f) : f \in DOMAIN fs} |-> OriginalBytes]
    /\ origin_checksum = OriginalBytes
    /\ cache = <<>>
    /\ contacts = <<>>
    /\ client = calls
    /\ returned = NoCall

\* migrate called by a program that made no call of its own before
InitWith(ups, rc, repo, mans, refs, fs) ==
    InitFull(ups, rc, repo, mans, refs, fs, <<>>)

AllDigests == {"d1", "d2", "d3", "d4", "d5"}
Script(d) == "script-" \o d
WithScript(d) == [n |-> 1, script |-> Script(d)]
NoFiles == [f \in {"f1", "f2"} |-> [exists |-> FALSE, kind |-> "Pipeline"]]

\* Range family: one upgrade d1 -> d2 and every repository of at most MaxTags tags,
\* newest first, whose tags take any version, any digest, pinned or not.
RangeTagOptions ==
    ({"0.1", "0.2"} \X {"d1", "d2", "d3"} \X {TRUE}) \cup ({"0.2"} \X {"d1", "d2"} \X {FALSE})

RangeRepo(choice) ==
    [k \in DOMAIN choice |->
        [name |-> <<choice[k][1], "-", IF choice[k][3] THEN Revisions[k] ELSE "rc">>,
         manifest_digest |-> choice[k][2],
         start_ts |-> Len(choice) - k + 1]]

InitRange ==
    \E n \in 0..MaxTags :
    \E choice \in [1..n -> RangeTagOptions] :
    \E values \in {<<"0.1", "0.2">>, <<"0.2", "0.2">>} :
    \E rc \in ResolverClasses :
        InitWith(<<Record("q/a", values[1], "d1", values[2], "d2", "f1")>>,
                 rc,
                 [dep \in {"q/a"} |-> RangeRepo(choice)],
                 [d \in AllDigests |-> [has_migration |-> TRUE, previous_migration_bundle |-> ""]],
                 [d \in AllDigests |-> WithScript(d)],
                 NoFiles)

\* Ties family: repositories of at most MaxTies pinned tags, some created at the same time.
InitTies ==
    \E n \in 1..MaxTies :
    \E choice \in [1..n -> {"0.1", "0.2"} \X {"d1", "d2", "d3"}] :
    \E ts \in [1..n -> 1..2] :
    \E rc \in ResolverClasses :
        /\ \A k \in 1..(n - 1) : ts[k] >= ts[k + 1]
        /\ InitWith(<<Record("q/a", "0.1", "d1", "0.2", "d2", "f1")>>,
                    rc,
                    [dep \in {"q/a"} |->
                        [k \in 1..n |-> Tag(choice[k][1], Revisions[k], choice[k][2], ts[k])]],
                    [d \in AllDigests |-> [has_migration |-> TRUE, previous_migration_bundle |-> ""]],
                    [d \in AllDigests |-> WithScript(d)],
                    NoFiles)

\* The tags of the docstring of drop_out_of_order_versions, with any digests.
ExampleNames == <<<<"0.3", "b">>, <<"0.2", "b">>, <<"0.3", "a">>,
                  <<"0.1", "b">>, <<"0.2", "a">>, <<"0.1", "a">>>>

InitExample ==
    \E digest \in [1..6 -> {"d1", "d2", "d3"}] :
    \E rc \in ResolverClasses :
        InitWith(<<Record("q/a", "0.1", "d1", "0.3", "d2", "f1")>>,
                 rc,
                 [dep \in {"q/a"} |->
                     [k \in 1..6 |-> Tag(ExampleNames[k][1], ExampleNames[k][2], digest[k], 7 - k)]],
                 [d \in AllDigests |-> [has_migration |-> TRUE, previous_migration_bundle |-> ""]],
                 [d \in AllDigests |-> WithScript(d)],
                 NoFiles)

\* Versions family: one upgrade between any two versions over a small repository.
InitVersions ==
    \E cv \in VersionStrings :
    \E nv \in VersionStrings :
    \E rc \in ResolverClasses :
        InitWith(<<Record("q/a", cv, "d1", nv, "d2", "f1")>>,
                 rc,
                 [dep \in {"q/a"} |-> <<Tag(nv, "b", "d2", 2), Tag(cv, "a", "d1", 1)>>],
                 [d \in AllDigests |-> [has_migration |-> TRUE, previous_migration_bundle |-> ""]],
                 [d \in AllDigests |-> WithScript(d)],
                 NoFiles)

\* Resolver family: one upgrade d1 -> d2 over a linear history whose range has up to
\* MaxRange bundles, with every assignment of annotations and referrers to them.
MidDigest(k) == "d" \o ToString(k + 2)
LinearRepo(n, shared) ==
    [k \in 1..(n + 1) |->
        IF k = 1 THEN Tag("0.2", Revisions[1], "d2", n + 1)
        ELSE IF k = n + 1 THEN Tag("0.1", Revisions[k], "d1", 1)
        ELSE Tag("0.2", Revisions[k],
                 IF shared /\ k = n /\ n > 2 THEN MidDigest(k - 2) ELSE MidDigest(k - 1),
                 n + 2 - k)]
DigestsOf(repo) == {repo[k].manifest_digest : k \in DOMAIN repo}

BundleOptions ==
    {<<FALSE, 0>>, <<TRUE, 0>>, <<TRUE, 1>>, <<TRUE, 2>>}

InitResolve ==
    \E n \in 1..MaxRange :
    \E shared \in BOOLEAN :
    \E rc \in ResolverClasses :
    LET repo == LinearRepo(n, shared)
        D == DigestsOf(repo) \ {"d1"}
    IN /\ (shared => n > 2)
       /\ \E bundle \in [D -> BundleOptions] :
          \E link \in [D -> {""} \cup D \cup {"d1"}] :
             InitWith(<<Record("q/a", "0.1", "d1", "0.2", "d2", "f1")>>,
                      rc,
                      [dep \in {"q/a"} |-> repo],
                      [d \in AllDigests |->
                          IF d \in D
                          THEN [has_migration |-> bundle[d][1], previous_migration_bundle |-> link[d]]
                          ELSE [has_migration |-> FALSE, previous_migration_bundle |-> ""]],
                      [d \in AllDigests |->
                          IF d \in D THEN [n |-> bundle[d][2], script |-> Script(d)]
                          ELSE [n |-> 0, script |-> ""]],
                      NoFiles)

\* the calls a client can make
GetManifest(image, digest) ==
    [op |-> "get_manifest", image |-> image, digest |-> digest, artifact_type |-> ""]
GetArtifact(image, digest) ==
    [op |-> "get_artifact", image |-> image, digest |-> digest, artifact_type |-> ""]
ListReferrers(image, digest, artifact_type) ==
    [op |-> "list_referrers", image |-> image, digest |-> digest, artifact_type |-> artifact_type]
FetchMigrationFile(image, digest) ==
    [op |-> "fetch_migration_file", image |-> image, digest |-> digest, artifact_type |-> ""]

\* Manager family: up to MaxRecords records over a fixed repository
\* 0.2-c (d2) -> 0.2-b (d3) -> 0.1-a (d1), both newer bundles with a migration.
RecordOptions ==
    { Record("q/a", b[1], b[2], b[3], b[4], f) :
          b \in {<<"0.1", "d1", "0.2", "d2">>, <<"0.1", "d1", "0.2", "d3">>,
                 <<"0.2", "d3", "0.2", "d2">>, <<"0.2", "d2", "0.1", "d1">>},
          f \in {"f1", "f2"} }

InitMigrate ==
    \E n \in 1..MaxRecords :
    \E ups \in [1..n -> RecordOptions] :
    \E rc \in ResolverClasses :
    \E kind1 \in {"Pipeline", "PipelineRun"} :
    \E exists2 \in BOOLEAN :
    \E calls \in IF n = 1 THEN {<<>>, <<GetManifest("q/a", "d3")>>} ELSE {<<>>} :
        InitFull(ups,
                 rc,
                 [dep \in {"q/a"} |-> <<Tag("0.2", "c", "d2", 3), Tag("0.2", "b", "d3", 2),
                                        Tag("0.1", "a", "d1", 1)>>],
                 [d \in AllDigests |->
                     [has_migration |-> d \in {"d2", "d3"},
                      previous_migration_bundle |-> IF d = "d2" THEN "d3" ELSE ""]],
                 [d \in AllDigests |-> IF d \in {"d2", "d3"} THEN WithScript(d)
                                       ELSE [n |-> 0, script |-> ""]],
                 [f \in {"f1", "f2"} |->
                     IF f = "f1" THEN [exists |-> TRUE, kind |-> kind1]
                     ELSE [exists |-> exists2, kind |-> "Pipeline"]],
                 calls)

\* Facade family: a client makes up to MaxCalls calls, migrate has nothing to upgrade.
\* Bundle d1 has no migration referrer, d2 has one, d3 has two.
CallOptions ==
    {GetManifest(image, d) : image \in {"q/a", "q/b/a"}, d \in {"d2", ReferrerDigest("d2", 1)}}
    \cup {GetArtifact(image, BlobDigest("d2")) : image \in {"q/a", "q/b/a"}}
    \cup {ListReferrers("q/a", d, artifact_type) :
              d \in {"d2", "d3"}, artifact_type \in {"", ShellScript, Signature}}
    \cup {FetchMigrationFile(image, d) : image \in {"q/a", "q/a@d9"}, d \in {"d1", "d2", "d3"}}

InitFacade ==
    \E n \in 1..MaxCalls :
    \E calls \in [1..n -> CallOptions] :
    \E rc \in ResolverClasses :
        InitFull(<<>>,
                 rc,
                 [dep \in {"q/a"} |-> <<Tag("0.2", "c", "d2", 3), Tag("0.2", "b", "d3", 2),
                                        Tag("0.1", "a", "d1", 1)>>],
                 [d \in AllDigests |->
                     [has_migration |-> d \in {"d2", "d3"},
                      previous_migration_bundle |-> IF d = "d2" THEN "d3" ELSE ""]],
                 [d \in AllDigests |->
                     IF d = "d2" THEN WithScript(d)
                     ELSE IF d = "d3" THEN [n |-> 2, script |-> Script(d)]
                     ELSE [n |-> 0, script |-> ""]],
                 NoFiles,
                 calls)

Init ==
    InitRange \/ InitTies \/ InitExample \/ InitVersions \/ InitResolve \/ InitMigrate \/ InitFacade

Spec == Init /\ [][Next]_vars
SpecRange == (InitRange \/ InitTies \/ InitExample \/ InitMigrate) /\ [][Next]_vars
SpecVersions == (InitVersions \/ InitMigrate) /\ [][Next]_vars
SpecResolve == (InitResolve \/ InitMigrate) /\ [][Next]_vars
SpecMigrate == InitMigrate /\ [][Next]_vars
SpecFacade == (InitFacade \/ InitMigrate) /\ [][Next]_vars

(* ------------------------------------------------------------------ *)
(* Properties                                                         *)
(* ------------------------------------------------------------------ *)
Determined(r) == workers[r].pc # "pending"
HasDigest(tags, digest) == \E k \in DOMAIN tags : tags[k].manifest_digest = digest

\* C1: whenever determine_task_bundle_upgrades_range returns a non-empty range, no
\* element of it has the current digest, and the new digest is the digest of the
\* element at index 0 and of no other element.
C1_RangeBounds ==
    \A r \in DOMAIN workers :
        (Determined(r) /\ workers[r].det.range # <<>>) =>
            LET the_range == workers[r].det.range
                u == tb_objects[r]
            IN /\ \A k \in DOMAIN the_range : the_range[k].manifest_digest # u.current_digest
               /\ the_range[1].manifest_digest = u.new_digest
               /\ \A k \in DOMAIN the_range :
                     the_range[k].manifest_digest = u.new_digest => k = 1

KeptByVersionOrder(listed) ==
    {listed[k] : k \in {i \in DOMAIN listed :
                           \A j \in (i + 1)..Len(listed) :
                               VersionGeq(parse_version(listed[i].name[1]),
                                          parse_version(listed[j].name[1]))}}
NamesOf(tags) == [k \in DOMAIN tags |-> <<tags[k].name[1], tags[k].name[3]>>]

\* C7: drop_out_of_order_versions keeps exactly the tags whose version is greater than
\* or equal to the version of every tag older than it in the list, each once, and
\* returns them newest-first; the tags of the docstring give 0.3-b, 0.3-a, 0.2-a, 0.1-a.
C7_PrunedByVersionOrder ==
    \A r \in DOMAIN workers :
        (Determined(r) /\ ~workers[r].det.raised) =>
            LET listed == workers[r].det.listed
                pruned == workers[r].det.pruned
            IN /\ {pruned[k] : k \in DOMAIN pruned} = KeptByVersionOrder(listed)
               /\ Len(pruned) = Cardinality(KeptByVersionOrder(listed))
               /\ \A k \in 1..(Len(pruned) - 1) : pruned[k].start_ts >= pruned[k + 1].start_ts
               /\ (NamesOf(listed) = ExampleNames =>
                      NamesOf(pruned) = <<<<"0.3", "b">>, <<"0.3", "a">>, <<"0.2", "a">>, <<"0.1", "a">>>>)

\* the tags of the docstring were pruned: two dropped, two of one version kept
C7_Witness ==
    \E r \in DOMAIN workers :
        /\ Determined(r)
        /\ NamesOf(workers[r].det.listed) = ExampleNames
        /\ Len(workers[r].det.pruned) = 4

MinorOf(value) == parse_version(value)[2]

\* C8 as stated: if current > new, expand_versions fails; otherwise it returns the
\* ascending "0.<m>" for m from the minor of current to the minor of new, a non-empty
\* list that starts with "0.<currentMinor>" and ends with "0.<newMinor>".
C8_ExpandNonEmpty ==
    \A r \in DOMAIN workers :
        Determined(r) =>
            LET u == tb_objects[r]
                versions == workers[r].det.versions
            IN IF VersionLess(parse_version(u.new_value), parse_version(u.current_value))
               THEN workers[r].det.raised
               ELSE /\ ~workers[r].det.raised
                    /\ versions # <<>>
                    /\ versions[1] = "0." \o ToString(MinorOf(u.current_value))
                    /\ versions[Len(versions)] = "0." \o ToString(MinorOf(u.new_value))
                    /\ \A k \in DOMAIN versions :
                          versions[k] = "0." \o ToString(MinorOf(u.current_value) + k - 1)

\* C8 as amended: if current > new, expand_versions fails; otherwise it returns the
\* ascending "0.<m>" for m from the minor of current to the minor of new: non-empty,
\* from "0.<currentMinor>" to "0.<newMinor>", exactly when currentMinor <= newMinor,
\* and empty when the minor of current is greater than the minor of new.
C8_ExpandByMinor ==
    \A r \in DOMAIN workers :
        Determined(r) =>
            LET u == tb_objects[r]
                versions == workers[r].det.versions
                cm == MinorOf(u.current_value)
                nm == MinorOf(u.new_value)
            IN IF VersionLess(parse_version(u.new_value), parse_version(u.current_value))
               THEN workers[r].det.raised
               ELSE /\ ~workers[r].det.raised
                    /\ \A k \in DOMAIN versions : versions[k] = "0." \o ToString(cm + k - 1)
                    /\ IF cm <= nm
                       THEN /\ Len(versions) = nm - cm + 1
                            /\ versions[1] = "0." \o ToString(cm)
                            /\ versions[Len(versions)] = "0." \o ToString(nm)
                       ELSE versions = <<>>

\* an upgrade over several minor versions was expanded
C8_Witness ==
    \E r \in DOMAIN workers :
        /\ Determined(r)
        /\ ~workers[r].det.raised
        /\ Len(workers[r].det.versions) >= 3

\* C9: once the tags are listed, if no version-pinned tag has the current digest, or
\* none has the new digest, the range is empty and nothing is raised, and the worker
\* of either strategy visits no bundle and finishes with no migrations.
C9_MissingBundleGivesNoMigrations ==
    \A r \in DOMAIN workers :
        LET w == workers[r]
            u == tb_objects[r]
        IN (/\ Determined(r)
            /\ ~w.det.raised
            /\ \/ ~HasDigest(w.det.listed, u.current_digest)
               \/ ~HasDigest(w.det.listed, u.new_digest)) =>
              /\ w.det.range = <<>>
              /\ w.pc \in {"iterating", "exhausted", "done"}
              /\ w.visits = <<>>
              /\ u.migrations = <<>>

\* the current bundle is listed, the new one is not, and resolve has returned
C9_Witness ==
    \E r \in DOMAIN workers :
        /\ workers[r].pc = "done"
        /\ pc # "resolving"
        /\ HasDigest(workers[r].det.listed, tb_objects[r].current_digest)
        /\ ~HasDigest(workers[r].det.listed, tb_objects[r].new_digest)
        /\ Len(workers[r].det.pruned) >= 2

\* the position in the range of the bundle a migration belongs to, 0 for none
PositionInRange(r, migration) ==
    LET the_range == workers[r].det.range
        at == {k \in DOMAIN the_range :
                  uri_with_tag(tb_objects[r].dep_name, the_range[k]) = migration.task_bundle}
    IN IF at = {} THEN 0 ELSE CHOOSE k \in at : TRUE

\* C2: after resolve has returned normally, the bundles of every upgrade's migrations
\* appear strictly oldest-first by their position in the newest-first upgrade range,
\* so none appears twice.
C2_MigrationsOldestFirst ==
    pc \in {"applying", "done"} =>
        \A r \in DOMAIN workers :
            LET ms == tb_objects[r].migrations
            IN \A a \in DOMAIN ms : \A b \in DOMAIN ms :
                  a < b => PositionInRange(r, ms[a]) > PositionInRange(r, ms[b])

\* C3: every iteration of the loop of LinkedMigrationsResolver either stops or moves
\* to a strictly older bundle, so the indexes visited strictly increase and no bundle
\* of the range is visited twice.
C3_LinkedWalkVisitsOlder ==
    \A r \in DOMAIN workers :
        LET visits == workers[r].visits
        IN \A a \in DOMAIN visits : \A b \in DOMAIN visits :
              a < b => visits[a] < visits[b]

ExecutionsOf(file_path, ref) ==
    LET at == {k \in DOMAIN exec_log :
                  exec_log[k].file_path = file_path /\ exec_log[k].ref = ref}
    IN [n \in 1..Cardinality(at) |->
           exec_log[CHOOSE k \in at : Cardinality({j \in at : j <= k}) = n].task_bundle]

\* C4: when apply_migrations has returned, every migration script of every distinct
\* upgrade of a package file was executed exactly once against that file, and the
\* scripts of one upgrade in the order of its migrations.
C4_EachScriptOnce ==
    pc = "done" =>
        \A f \in DOMAIN package_file_updates :
            LET pf == package_file_updates[f]
            IN \A u \in DOMAIN pf.task_bundle_upgrades :
                  LET ref == pf.task_bundle_upgrades[u]
                      ms == tb_objects[ref].migrations
                  IN ExecutionsOf(pf.file_path, ref) = [k \in DOMAIN ms |-> ms[k].task_bundle]

\* C5: whenever no package file is being handled, whether the last handling returned
\* or raised, no scratch file exists.
C5_ScratchUnlinked ==
    ~in_handle => scratch = {}

KeyOfRecord(upgrade) == current_bundle(TaskBundleUpgrade(upgrade))
SameUpgrade(a, b) ==
    /\ a.depName = b.depName
    /\ a.currentValue = b.currentValue /\ a.currentDigest = b.currentDigest
    /\ a.newValue = b.newValue /\ a.newDigest = b.newDigest
StoredFor(key) == {k \in DOMAIN task_bundle_upgrades : task_bundle_upgrades[k].key = key}
\* the reference a package file got for record i
ReferenceOfRecord(i) ==
    LET pf == package_file_updates[PackageFileOf(package_file_updates, upgrades[i].packageFile)]
        place == Cardinality({j \in 1..i : upgrades[j].packageFile = upgrades[i].packageFile})
    IN pf.task_bundle_upgrades[place]

\* C6: after construction every stored entry's upgrade has the entry's key as its
\* current_bundle, the records sharing depName, currentValue, currentDigest, newValue
\* and newDigest have exactly one stored upgrade, and the package file built from
\* every record holds, at that record's place, the stored instance itself.
C6_DedupIdentity ==
    pc # "start" =>
        /\ \A k \in DOMAIN task_bundle_upgrades :
              current_bundle(tb_objects[task_bundle_upgrades[k].ref]) = task_bundle_upgrades[k].key
        /\ \A i \in DOMAIN upgrades :
              /\ Cardinality(StoredFor(KeyOfRecord(upgrades[i]))) = 1
              /\ \A k \in StoredFor(KeyOfRecord(upgrades[i])) :
                    ReferenceOfRecord(i) = task_bundle_upgrades[k].ref
        /\ \A i \in DOMAIN upgrades : \A j \in DOMAIN upgrades :
              SameUpgrade(upgrades[i], upgrades[j]) =>
                  ReferenceOfRecord(i) = ReferenceOfRecord(j)

\* two records of two package files share one upgrade
C6_Witness ==
    /\ pc # "start"
    /\ \E i \in DOMAIN upgrades : \E j \in DOMAIN upgrades :
          /\ i # j
          /\ SameUpgrade(upgrades[i], upgrades[j])
          /\ upgrades[i].packageFile # upgrades[j].packageFile

HasMigration(tag_info) == manifests[tag_info.manifest_digest].has_migration
WellLinked(the_range) ==
    \A k \in DOMAIN the_range :
        LET link == manifests[the_range[k].manifest_digest].previous_migration_bundle
            older == {j \in (k + 1)..Len(the_range) : HasMigration(the_range[j])}
        IN IF older = {}
           THEN link = "" \/ \A j \in DOMAIN the_range : the_range[j].manifest_digest # link
           ELSE link = the_range[CHOOSE j \in older : \A i \in older : j <= i].manifest_digest

\* C10: when every bundle of the range is annotated with the digest of the nearest
\* older bundle of the range that has a migration (with nothing, or with a digest
\* outside the range, when there is none), LinkedMigrationsResolver yields what
\* SimpleIterationResolver yields for that range, and raises where it raises.
C10_ResolversAgree ==
    \A r \in DOMAIN workers :
        LET w == workers[r]
            simple == SimpleOutcome(tb_objects[r].dep_name, w.det.range)
        IN (Determined(r) /\ ~w.det.raised /\ WellLinked(w.det.range)) =>
              /\ w.pc = "done" => (~simple.raised /\ tb_objects[r].migrations = Reverse(simple.yields))
              /\ w.pc = "raised" => (simple.raised /\ tb_objects[r].migrations = simple.yields)
              /\ (resolver_class = "LinkedMigrationsResolver" /\ w.pc = "iterating")
                    => Len(w.visits) < MaxVisits

\* the linked walk skipped a bundle and found two migrations
C10_Witness ==
    \E r \in DOMAIN workers :
        /\ resolver_class = "LinkedMigrationsResolver"
        /\ workers[r].pc = "done"
        /\ WellLinked(workers[r].det.range)
        /\ Len(tb_objects[r].migrations) = 2
        /\ Len(workers[r].visits) < Len(workers[r].det.range)

\* the bytes the batch of package file k starts from, and what the runs logged so far
\* make of them
KindOf(k) == files[package_file_updates[k].file_path].kind
BatchOrigin(k) ==
    IF KindOf(k) = "PipelineRun" THEN EmbeddedPipeline(load_yaml(OriginalBytes))
    ELSE OriginalBytes
RECURSIVE Replay(_, _, _, _)
Replay(log, target, bytes, origin) ==
    IF log = <<>> THEN bytes
    ELSE Replay(Tail(log), target,
                IF Head(log).target = target
                THEN RunEffect(bytes, Head(log).effect, Head(log).task_bundle, origin)
                ELSE bytes,
                origin)
BatchResult(k) ==
    Replay(exec_log, TargetOf(k, package_file_updates[k].file_path, KindOf(k)),
           BatchOrigin(k), BatchOrigin(k))

\* C11: when a migration script exits non-zero, apply_migrations raises, the failing
\* run is the last run there is, so no later script of the file is executed, and the
\* file the scripts ran on holds what the runs made of it: nothing is rolled back.
C11_FailedScriptAborts ==
    /\ (\E n \in DOMAIN exec_log : exec_log[n].returncode # 0) =>
          /\ pc = "raised" /\ error = "migration failed"
          /\ \A n \in DOMAIN exec_log : exec_log[n].returncode # 0 <=> n = Len(exec_log)
          /\ exec_log[Len(exec_log)].file_path = package_file_updates[file_idx + 1].file_path
          /\ Cardinality({n \in DOMAIN exec_log :
                             exec_log[n].file_path = package_file_updates[file_idx + 1].file_path})
                = step + 1
          /\ content[exec_log[Len(exec_log)].target] = BatchResult(file_idx + 1)
    /\ error = "migration failed" => \E n \in DOMAIN exec_log : exec_log[n].returncode # 0

\* a script failed after an earlier one had edited the file, with scripts still to run
C11_Witness ==
    /\ error = "migration failed"
    /\ step >= 1
    /\ step + 1 < Len(Scripts(package_file_updates[file_idx + 1].task_bundle_upgrades))
    /\ exec_log[1].effect = "edit"
    /\ exec_log[1].file_path = package_file_updates[file_idx + 1].file_path
    /\ BatchResult(file_idx + 1) # BatchOrigin(file_idx + 1)

\* C12: a package file of either shape whose batch left the file the scripts ran on
\* with the checksum it had before the batch is never rewritten: it holds the bytes
\* it held before migrate.
C12_NoOpBatchLeavesFile ==
    \A k \in DOMAIN package_file_updates :
        file_checksum(BatchResult(k)) = file_checksum(BatchOrigin(k)) =>
            content[PackagePath(package_file_updates[k].file_path)] = OriginalBytes

\* a batch that changed the file and put it back has been handled to its end
C12_Witness ==
    \E k \in DOMAIN package_file_updates :
        /\ k <= file_idx
        /\ BatchResult(k) = BatchOrigin(k)
        /\ \E n \in DOMAIN exec_log :
              /\ exec_log[n].file_path = package_file_updates[k].file_path
              /\ exec_log[n].effect = "edit"

\* C13: the scripts of a pipeline-run file run on its scratch file, never on the
\* package file; once a batch that changed the scratch has been handled, the document
\* of the package file is the original one but for spec.pipelineSpec, which is the
\* spec of the migrated scratch document.
C13_PipelineRunWrittenBack ==
    \A k \in DOMAIN package_file_updates :
        KindOf(k) = "PipelineRun" =>
            LET file_path == package_file_updates[k].file_path
            IN /\ \A n \in DOMAIN exec_log :
                     exec_log[n].file_path = file_path =>
                         /\ exec_log[n].target = PipelineScratch(k)
                         /\ exec_log[n].target # PackagePath(file_path)
               /\ (k > file_idx \/ ~files[file_path].exists) =>
                      content[PackagePath(file_path)] = OriginalBytes
               /\ (k <= file_idx /\ file_checksum(BatchResult(k)) # file_checksum(BatchOrigin(k))) =>
                      /\ load_yaml(content[PackagePath(file_path)]).top = load_yaml(OriginalBytes).top
                      /\ load_yaml(content[PackagePath(file_path)]).spec = load_yaml(BatchResult(k)).spec

\* a pipeline-run file was written back after its scratch got an edit of the spec and
\* an edit outside of it
C13_Witness ==
    \E k \in DOMAIN package_file_updates :
        /\ KindOf(k) = "PipelineRun"
        /\ k <= file_idx
        /\ load_yaml(BatchResult(k)).spec # <<>>
        /\ load_yaml(BatchResult(k)).top = "edited"

\* one call of fetch_migration_file by the client
FetchStep ==
    /\ client # <<>>
    /\ client' = Tail(client)
    /\ Head(client).op = "fetch_migration_file"
Requested == DOMAIN contacts' \ DOMAIN contacts
C14_FetchStep ==
    FetchStep =>
        LET call == Head(client)
            c == [Container(call.image) EXCEPT !.digest = call.digest]
            listed == list_referrers(FacadeState, c, ShellScript).value
            migrations == {k \in DOMAIN listed : listed[k].is_migration}
            n == Cardinality(migrations)
            only == listed[CHOOSE k \in migrations : TRUE]
        IN IF Container(call.image).digest # ""
           THEN /\ returned'.value = [raised |-> TRUE, error |-> "ValueError", script |-> None]
                /\ contacts' = contacts
                /\ cache' = cache
           ELSE /\ n = 0 =>
                    /\ returned'.value = [raised |-> FALSE, error |-> "", script |-> None]
                    /\ Requested \subseteq {KeyOfCall(call)}
                /\ n = 1 =>
                    returned'.value =
                        [raised |-> FALSE, error |-> "",
                         script |-> Some(RegistryBlob(RegistryManifest(only.digest).layers[1].digest))]
                /\ n > 1 =>
                    /\ returned'.value = [raised |-> TRUE, error |-> "IncorrectMigrationAttachment",
                                          script |-> None]
                    /\ Requested \subseteq {KeyOfCall(call)}

\* C14: fetch_migration_file refuses an image that carries a digest before any request
\* is made; otherwise, with n the number of referrers listed to it that are migrations,
\* n = 0 gives None, n = 1 gives the blob of the first layer of that referrer's
\* manifest, and n > 1 raises IncorrectMigrationAttachment with no manifest and no
\* blob requested.
C14_FetchOutcomes == [][C14_FetchStep]_vars

\* a bundle with two migration referrers was refused
C14_Witness ==
    /\ returned.call.op = "fetch_migration_file"
    /\ returned.value.error = "IncorrectMigrationAttachment"
    /\ referrers[returned.call.digest].n > 1

FacadeStep ==
    /\ client # <<>>
    /\ client' = Tail(client)
    /\ Head(client).op \in FacadeOps
StoredForm(op, value) == IF op = "get_artifact" THEN value ELSE json_dumps(value)
C18_FacadeStep ==
    FacadeStep =>
        LET call == Head(client)
            key == KeyOfCall(call)
        IN IF key \in DOMAIN cache
           THEN /\ cache' = cache
                /\ contacts' = contacts
                /\ StoredForm(call.op, returned'.value) = cache[key]
           ELSE /\ contacts' = (key :> 1) @@ contacts
                /\ cache' = (key :> StoredForm(call.op, returned'.value)) @@ cache

\* C18: in a series of calls of the facade, a call whose key is cached returns the
\* cached value and makes no request, a call that misses makes one request and stores
\* what it fetched under the key, and no key is ever requested twice.
C18_CacheMediated ==
    /\ [](\A key \in DOMAIN contacts : contacts[key] = 1 /\ key \in DOMAIN cache)
    /\ [][C18_FacadeStep]_vars

\* a call was answered from the cache
C18_Witness ==
    /\ returned.hit
    /\ returned.call.op = "list_referrers"
    /\ contacts[KeyOfCall(returned.call)] = 1

\* C19: whatever calls came before, a call of the facade returns what the registry
\* answers for that call's own container, blob digest and artifact type.
C19_HitIsRegistryAnswer ==
    /\ returned.call.op = "get_manifest" =>
          returned.value = RegistryManifest(returned.call.digest)
    /\ returned.call.op = "get_artifact" =>
          returned.value = RegistryBlob(returned.call.digest)
    /\ returned.call.op = "list_referrers" =>
          returned.value = RegistryReferrers(returned.call.digest, returned.call.artifact_type)

NothingApplied ==
    /\ exec_log = <<>>
    /\ file_idx = 0
    /\ ~in_handle
    /\ scratch = {}
    /\ \A t \in DOMAIN content : content[t] = OriginalBytes
ResolveIsOver == pc \notin {"start", "constructed", "resolving", "shutting_down"}

\* C15: resolve is left, by return or by exception, only when every submitted worker
\* has finished; it returns when no worker raised and raises when one did, and after
\* it raised nothing is applied: no script is run and no package file is changed.
C15_ResolveWaitsForWorkers ==
    /\ ResolveIsOver => \A r \in DOMAIN workers : WorkerFinished(r)
    /\ (ResolveIsOver /\ error # "resolve") => \A r \in DOMAIN workers : workers[r].pc = "done"
    /\ error = "resolve" =>
          /\ pc = "raised"
          /\ \E r \in DOMAIN workers : workers[r].pc = "raised"
          /\ NothingApplied

\* resolve raised after a second worker had resolved its migrations
C15_Witness ==
    /\ error = "resolve"
    /\ \E r \in DOMAIN workers :
          workers[r].pc = "done" /\ tb_objects[r].migrations # <<>>

\* C16 as stated: once resolve has observed a failed worker no worker that had not
\* started is started, and what the workers in flight write is never applied.
C16_FailureCancelsPending ==
    /\ \A r \in DOMAIN workers : ~workers[r].late
    /\ (pc = "shutting_down" \/ error = "resolve") => NothingApplied

\* C16 as amended: a failed worker cancels nothing. After resolve has observed it, the
\* workers not yet started are still started, resolve raises only when every submitted
\* worker has run to its end, and what the workers wrote is never applied.
C16_FailureDiscardsBatch ==
    /\ (pc = "shutting_down" \/ error = "resolve") => NothingApplied
    /\ error = "resolve" =>
          \A r \in DOMAIN workers : workers[r].pc \in {"done", "raised"}
    /\ \A r \in DOMAIN workers :
          workers[r].late => (pc = "shutting_down" \/ error = "resolve")

\* a worker started after the failure was observed, resolved its migrations, and
\* resolve raised
C16_Witness ==
    /\ error = "resolve"
    /\ \E r \in DOMAIN workers :
          /\ workers[r].late
          /\ workers[r].pc = "done"
          /\ tb_objects[r].migrations # <<>>

\* what the worker of upgrade r yields when it resolves the upgrade on its own
OutcomeAlone(r) ==
    IF resolver_class = "SimpleIterationResolver"
    THEN SimpleOutcome(tb_objects[r].dep_name, workers[r].det.range)
    ELSE LET o == LinkedOutcome(tb_objects[r].dep_name, workers[r].det.range)
         IN [raised |-> o.raised, yields |-> o.yields]
C17_WorkerStep ==
    \A k \in DOMAIN tb_objects :
        tb_objects'[k] # tb_objects[k] =>
            /\ k \in DOMAIN workers
            /\ workers'[k] # workers[k]
            /\ \A r \in DOMAIN workers : r # k => workers'[r] = workers[r]
            /\ [tb_objects'[k] EXCEPT !.migrations = tb_objects[k].migrations] = tb_objects[k]

\* C17: every stored upgrade has one worker, a step of a worker changes nothing but
\* the migrations of its own upgrade, and whatever the interleaving the migrations a
\* finished worker leaves are those it yields when it resolves its upgrade on its own.
C17_WorkersIndependent ==
    /\ [](/\ pc \notin {"start", "constructed"} =>
                /\ DOMAIN workers = StoredRefs
                /\ Cardinality(StoredRefs) = Len(task_bundle_upgrades)
          /\ \A k \in DOMAIN tb_objects :
                (k \notin DOMAIN workers \/ workers[k].pc = "pending") =>
                    tb_objects[k].migrations = <<>>
          /\ \A r \in DOMAIN workers :
                /\ workers[r].pc = "done" =>
                      /\ ~OutcomeAlone(r).raised
                      /\ tb_objects[r].migrations = Reverse(OutcomeAlone(r).yields)
                /\ (workers[r].pc = "raised" /\ ~workers[r].det.raised) =>
                      /\ OutcomeAlone(r).raised
                      /\ tb_objects[r].migrations = OutcomeAlone(r).yields)
    /\ [][C17_WorkerStep]_vars

\* two workers have finished, each with migrations of its own
C17_Witness ==
    \E r \in DOMAIN workers : \E q \in DOMAIN workers :
        /\ r # q
        /\ workers[r].pc = "done" /\ workers[q].pc = "done"
        /\ Len(tb_objects[r].migrations) = 2
        /\ Len(tb_objects[q].migrations) = 1

\* the migration the registry holds for a bundle
RECURSIVE MigrationsOfVisits(_, _, _)
MigrationOf(dep_name, tag_info) ==
    IF /\ manifests[tag_info.manifest_digest].has_migration
       /\ referrers[tag_info.manifest_digest].n = 1
       /\ referrers[tag_info.manifest_digest].script # ""
    THEN <<TaskBundleMigration(uri_with_tag(dep_name, tag_info),
                               referrers[tag_info.manifest_digest].script)>>
    ELSE <<>>
MigrationsOfVisits(dep_name, the_range, visits) ==
    IF visits = <<>> THEN <<>>
    ELSE MigrationOf(dep_name, the_range[Head(visits) + 1])
            \o MigrationsOfVisits(dep_name, the_range, Tail(visits))
RequestedDigests ==
    {d \in DOMAIN manifests :
        \/ ("manifest-q-a-" \o d) \in DOMAIN contacts
        \/ ("referrers-q-a-" \o d) \in DOMAIN contacts}

\* C20: when the bundle LinkedMigrationsResolver visited last is annotated with a
\* previous-migration-bundle that is no digest of the range, the walk has stopped
\* there, with no error unless that bundle's migration attachment is refused, the
\* migrations are those of the bundles visited, and no manifest and no referrers of a
\* bundle of the range that was not visited were requested.
C20_LinkOutsideRangeStops ==
    \A r \in DOMAIN workers :
        LET w == workers[r]
            the_range == w.det.range
            last == the_range[w.visits[Len(w.visits)] + 1]
            link == manifests[last.manifest_digest].previous_migration_bundle
            visited == {the_range[w.visits[k] + 1].manifest_digest : k \in DOMAIN w.visits}
            found == MigrationsOfVisits(tb_objects[r].dep_name, the_range, w.visits)
        IN (/\ resolver_class = "LinkedMigrationsResolver"
            /\ w.visits # <<>>
            /\ link # ""
            /\ ~HasDigest(the_range, link)) =>
              /\ w.pc \in {"exhausted", "done", "raised"}
              /\ w.pc = "raised" =>
                    /\ manifests[last.manifest_digest].has_migration
                    /\ referrers[last.manifest_digest].n > 1
              /\ tb_objects[r].migrations = IF w.pc = "done" THEN Reverse(found) ELSE found
              /\ Cardinality(DOMAIN workers) = 1 =>
                    \A k \in DOMAIN the_range :
                        the_range[k].manifest_digest \in RequestedDigests =>
                            the_range[k].manifest_digest \in visited

\* the walk skipped a bundle, reached one linked to the current bundle, which is not
\* in the range, and stopped with two migrations
C20_Witness ==
    \E r \in DOMAIN workers :
        /\ resolver_class = "LinkedMigrationsResolver"
        /\ workers[r].pc = "done"
        /\ Len(workers[r].visits) = 2
        /\ Len(workers[r].det.range) = 3
        /\ Len(tb_objects[r].migrations) = 2
        /\ manifests[workers[r].det.range[workers[r].visits[2] + 1].manifest_digest]
              .previous_migration_bundle = tb_objects[r].current_digest

\* the registry-reported listing: the per-version listings, one after another
RegistryListing(r) == ConcatListings(repo_tags[tb_objects[r].dep_name], workers[r].det.versions)
ListingIndex(listing, tag) == CHOOSE k \in DOMAIN listing : listing[k].name = tag.name

\* C21: two tags of the range determine_task_bundle_upgrades_range returns that have
\* the same start_ts stand in the range in the order they have in the registry-reported
\* listing, the concatenation of the per-version tag listings.
C21_TiesKeepRegistryOrder ==
    \A r \in DOMAIN workers :
        (Determined(r) /\ ~workers[r].det.raised) =>
            LET the_range == workers[r].det.range
            IN \A i \in DOMAIN the_range : \A j \in DOMAIN the_range :
                  (i < j /\ the_range[i].start_ts = the_range[j].start_ts) =>
                      ListingIndex(RegistryListing(r), the_range[i])
                          < ListingIndex(RegistryListing(r), the_range[j])

\* C22: at every run of a migration script the scratch file holds the UTF-8 bytes of
\* that script and nothing else, whatever the lengths of the scripts written to it
\* before.
C22_ScratchHoldsTheScript ==
    \A n \in DOMAIN exec_log :
        /\ exec_log[n].migration_file = encode(exec_log[n].script)
        /\ exec_log[n].prev_size = Len(encode(exec_log[n].script))

\* a script was run on a file after a longer one had been run on it
C22_Witness ==
    \E n \in DOMAIN exec_log :
        /\ n > 1
        /\ exec_log[n].file_path = exec_log[n - 1].file_path
        /\ Len(encode(exec_log[n].script)) < Len(encode(exec_log[n - 1].script))

\* the first record of the input with the current bundle of record i
FirstRecord(i) ==
    CHOOSE j \in DOMAIN upgrades :
        /\ KeyOfRecord(upgrades[j]) = KeyOfRecord(upgrades[i])
        /\ \A k \in 1..(j - 1) : KeyOfRecord(upgrades[k]) # KeyOfRecord(upgrades[i])

\* C23: of the records with one current bundle the manager stores the upgrade of the
\* first; at every moment of migrate that upgrade has the first record's new_value and
\* new_digest and is resolved over the first record's range, the upgrades of the later
\* records are never stored nor given migrations, and the package file of every such
\* record holds the first record's upgrade at the record's place.
C23_FirstRecordWins ==
    pc # "start" =>
        \A i \in DOMAIN upgrades :
            LET first == FirstRecord(i)
            IN /\ ReferenceOfRecord(i) = first
               /\ first \in StoredRefs
               /\ [tb_objects[first] EXCEPT !.migrations = <<>>]
                     = TaskBundleUpgrade(upgrades[first])
               /\ (first \in DOMAIN workers /\ Determined(first)) =>
                     workers[first].det = determine_task_bundle_upgrades_range(
                                              TaskBundleUpgrade(upgrades[first]),
                                              repo_tags[upgrades[first].depName])
               /\ i # first =>
                     /\ i \notin StoredRefs
                     /\ tb_objects[i] = TaskBundleUpgrade(upgrades[i])

\* the second record has the current bundle of the first and another new digest, and
\* the stored upgrade has been resolved to the migrations of the first record's range
C23_Witness ==
    /\ pc = "done"
    /\ Len(upgrades) = 2
    /\ KeyOfRecord(upgrades[1]) = KeyOfRecord(upgrades[2])
    /\ upgrades[1].newDigest = "d2"
    /\ upgrades[2].newDigest = "d3"
    /\ upgrades[1].packageFile # upgrades[2].packageFile
    /\ Len(tb_objects[1].migrations) = 2
    /\ package_file_updates[2].task_bundle_upgrades = <<1>>

\* the runs of the scripts of package file k, and the record it first appears in
RunsOn(k) == {n \in DOMAIN exec_log : exec_log[n].file_path = package_file_updates[k].file_path}
FirstAppearance(k) ==
    CHOOSE i \in DOMAIN upgrades :
        /\ upgrades[i].packageFile = package_file_updates[k].file_path
        /\ \A j \in 1..(i - 1) : upgrades[j].packageFile # package_file_updates[k].file_path
\* what a package file holds when all its scripts have run and its handler has returned
Handled(k) ==
    IF KindOf(k) = "PipelineRun"
    THEN RewritePipelineRunFile(OriginalBytes, BatchResult(k), BatchOrigin(k))
    ELSE RewritePipelineFile(BatchResult(k), BatchOrigin(k))

\* C24: the package files are handled one after another in the order of their first
\* appearance in the input and no script is ever run for a file that does not exist;
\* when apply_migrations raises for a missing path, every package file before it has
\* had all its scripts run and holds what they and its handler made of it, and neither
\* the missing file nor any file after it has had a script run or been changed.
C24_MissingFileStopsInOrder ==
    pc \notin {"start"} =>
        /\ {package_file_updates[k].file_path : k \in DOMAIN package_file_updates}
              = {upgrades[i].packageFile : i \in DOMAIN upgrades}
        /\ \A a \in DOMAIN package_file_updates : \A b \in DOMAIN package_file_updates :
              a < b => FirstAppearance(a) < FirstAppearance(b)
        /\ \A k \in DOMAIN package_file_updates :
              /\ RunsOn(k) # {} => files[package_file_updates[k].file_path].exists
              /\ \A n \in RunsOn(k) : \A j \in DOMAIN package_file_updates :
                    j < k => \A m \in RunsOn(j) : m < n
              /\ k <= file_idx =>
                    /\ Cardinality(RunsOn(k))
                          = Len(Scripts(package_file_updates[k].task_bundle_upgrades))
                    /\ \A n \in RunsOn(k) : exec_log[n].returncode = 0
                    /\ content[PackagePath(package_file_updates[k].file_path)] = Handled(k)
              /\ (k > file_idx + 1 \/ (k = file_idx + 1 /\ ~in_handle /\ error # "migration failed")) =>
                    /\ RunsOn(k) = {}
                    /\ content[PackagePath(package_file_updates[k].file_path)] = OriginalBytes
        /\ error = "missing file" =>
              /\ pc = "raised"
              /\ file_idx < Len(package_file_updates)
              /\ ~files[package_file_updates[file_idx + 1].file_path].exists

\* apply_migrations raised for the second package file after the scripts of the first
\* had edited it
C24_Witness ==
    /\ error = "missing file"
    /\ file_idx = 1
    /\ Cardinality(RunsOn(1)) = 2
    /\ \E n \in RunsOn(1) : exec_log[n].effect = "edit"
    /\ content[PackagePath(package_file_updates[1].file_path)] # OriginalBytes
    /\ content[PackagePath(package_file_updates[2].file_path)] = OriginalBytes

====
